---- MODULE Spec2Model ----
(***************************************************************************)
(* PID_Control_Simulation: the environment model (simulation/model.py),    *)
(* the PID controller (simulation/HVAC.py) and the simulation driver       *)
(* (simulation/process_model.py).                                          *)
(*                                                                         *)
(* Numbers are fixed point, so that the Python floats become integers:     *)
(*   temperature   centi-degrees Celsius   (22.0 C        is 2200)         *)
(*   co2, o2       milli-ppm               (400.0 ppm     is 400000)       *)
(*   thermal       joules                  (10000         is 10000)        *)
(*   time          minutes since the epoch of the model                    *)
(*   PID gains     tenths                  (Kp = 2.0      is 20)           *)
(* Milli-ppm is the resolution of the breathing jitter (randrange(..)/1000)*)
(* A float division becomes \div, which rounds towards minus infinity;     *)
(* float rounding itself is not modelled.  All values stay inside TLC's    *)
(* 32-bit integers.                                                        *)
(***************************************************************************)
EXTENDS Integers, Sequences, FiniteSets, TLC

VARIABLES
    config,        \* the loaded config.yaml: simulation parameters and PID gains
    rng,           \* state of the `random` module's generator
    time_list,     \* process_model.py module-level accumulators
    temp_list,
    co2_list,
    o2_list,
    thermal_list,
    files,         \* the data directory: file number -> JSON document written
    stack,         \* Python call stack, innermost frame last
    outcome,       \* how the last top-level call ended: "none", "returned" or an exception
    calls,         \* number of top-level calls made so far in this process
    trace,         \* observation of the current top-level call (what a mock would record)
    fn             \* SpecFn only: the last direct call of a model.py function

vars == <<config, rng, time_list, temp_list, co2_list, o2_list, thermal_list,
          files, stack, outcome, calls, trace, fn>>

(***************************************************************************)
(* Bounds of the model.                                                    *)
(***************************************************************************)
MaxHours == 1          \* hours_run ranges over 0..MaxHours
MaxSeed == 2           \* the generator is seeded with 0..MaxSeed
MaxCalls == 2          \* top-level calls of process_for_* per process
RecursionLimit == 5    \* frames the interpreter allows before RecursionError
MaxUpdates == 10       \* update calls made on one controller
MaxHvacCalls == 2      \* successive use_hvac calls on the same controllers
MaxDbCalls == 5        \* calls made on the database module
MaxListing == 4        \* entries of a listed directory
MaxFilesWritten == 12  \* files a run has written before initialise_db

(***************************************************************************)
(* Program constants.                                                      *)
(***************************************************************************)
MinutesPerHour == 60
InitThermal == 10000
GasMax == 1000000 * 1000       \* 1000000 ppm
MinTempTooLow == (-373) * 100  \* faulty variant: a floor one hundred degrees too low
MinTemp == (-273) * 100        \* -273 C
RefTemp == 25 * 100            \* the 25 of abs(temp/25)
TempSetpoint == 25 * 100       \* PID(.., 25)
CO2Setpoint == 400 * 1000      \* PID(.., 400)
O2Setpoint == 210000 * 1000    \* PID(.., 210000)
ShockMax == 50000
NoiseMax == 5000

Abs(x) == IF x < 0 THEN -x ELSE x
Max(a, b) == IF a >= b THEN a ELSE b
Min(a, b) == IF a <= b THEN a ELSE b

(***************************************************************************)
(* model.py, module level: the per-person rates in ppm/min.                *)
(*   (0.005*60/1000)/room_volume * 10**6  =  300/room_volume ppm           *)
(***************************************************************************)
co2_gen_per_person(cfg) == (300 * 1000) \div cfg.room_volume
o2_cons_per_person(cfg) == (300 * 1000) \div cfg.room_volume

\* int(rate * 100), the bound handed to randrange; one unit of it is 1/1000 ppm
JitterDiff(g) == g \div 10

\* room_air_mass * air_cp = room_volume * 1.225 * 1005 J/C; the temperature
\* change in centi-degrees is thermal * 100 / that = thermal * 800 / (room_volume * 9849)
TempDelta(thermal, cfg) == (thermal * 800) \div (cfg.room_volume * 9849)

(***************************************************************************)
(* simulate_process_equipment: `shock` is added when random() < 0.01       *)
(* (`mod`), `noise` always.                                                *)
(***************************************************************************)
\* faulty variant: the noise is added only when there is no shock
ProcessEquipmentNoiseElse(thermal, mod, shock, noise) ==
    IF mod THEN thermal + shock ELSE thermal + noise

simulate_process_equipment(thermal, mod, shock, noise) ==
    LET stepped == IF mod THEN thermal + shock ELSE thermal
    IN  stepped + noise

(***************************************************************************)
(* mod_breathing: randrange(-diff, diff) raises ValueError on an empty     *)
(* range; otherwise `jit` is its draw.                                     *)
(***************************************************************************)
ModBreathingRaises(g, lo, hi, diff) == (g >= lo \/ g <= hi) /\ diff <= 0

\* faulty variant: the rate is scaled by temp/25 with its sign
ModBreathingSigned(g, lo, hi, diff, temp, jit) ==
    LET jittered == IF g >= lo \/ g <= hi THEN g + jit ELSE g
    IN  (jittered * temp) \div RefTemp

mod_breathing(g, lo, hi, diff, temp, jit) ==
    LET jittered == IF g >= lo \/ g <= hi THEN g + jit ELSE g
    IN  (jittered * Abs(temp)) \div RefTemp

\* faulty variant: the lower bound is forgotten
ClampUpperOnly(x) == Min(GasMax, x)

\* max(min(1000000, x), 0)
Clamp(x) == Max(Min(GasMax, x), 0)

(***************************************************************************)
(* Results of a call: exc = "none" and the returned value, or the          *)
(* exception raised.                                                       *)
(***************************************************************************)
Return(v) == [exc |-> "none", val |-> v]
Raise(e) == [exc |-> e, val |-> <<>>]

(***************************************************************************)
(* simulate_breathing_changes(co2, o2, temp); jc and jo are the two        *)
(* randrange draws (CO2 first).                                            *)
(***************************************************************************)
simulate_breathing_changes(co2, o2, temp, jc, jo, cfg) ==
    LET gc == co2_gen_per_person(cfg)
        go == o2_cons_per_person(cfg)
    IN  IF ModBreathingRaises(gc, gc \div 10, gc * 10, JitterDiff(gc))
           \/ ModBreathingRaises(go, go \div 10, go * 10, JitterDiff(go))
        THEN Raise("ValueError")
        ELSE LET co2a == co2 + mod_breathing(gc, gc \div 10, gc * 10, JitterDiff(gc), temp, jc) * cfg.occupants
                 o2a == o2 - mod_breathing(go, go \div 10, go * 10, JitterDiff(go), temp, jo) * cfg.occupants
             IN  Return(<<Clamp(co2a), Clamp(o2a)>>)

(***************************************************************************)
(* simulate_airsealed_room_no_control(data); d holds the random draws of   *)
(* the step: [mod, shock, noise, jc, jo].                                  *)
(***************************************************************************)
\* faulty variant: the timestamp is handed back as it came
NoControlKeepsTime(data, d, cfg) ==
    IF Len(data) # 5 THEN Raise("ValueError") ELSE
    LET time == data[1]
        thermal == simulate_process_equipment(data[5], d.mod, d.shock, d.noise)
        temp == Max(data[2] + TempDelta(thermal, cfg), MinTemp)
        b == simulate_breathing_changes(data[3], data[4], temp, d.jc, d.jo, cfg)
    IN  IF b.exc # "none" THEN b
        ELSE Return(<<time, temp, b.val[1], b.val[2], thermal>>)

\* faulty variant: the breathing step is given the temperature of the input state
NoControlBreathesOldTemp(data, d, cfg) ==
    IF Len(data) # 5 THEN Raise("ValueError") ELSE
    LET time == data[1] + 1
        thermal == simulate_process_equipment(data[5], d.mod, d.shock, d.noise)
        temp == Max(data[2] + TempDelta(thermal, cfg), MinTemp)
        b == simulate_breathing_changes(data[3], data[4], data[2], d.jc, d.jo, cfg)
    IN  IF b.exc # "none" THEN b
        ELSE Return(<<time, temp, b.val[1], b.val[2], thermal>>)

simulate_airsealed_room_no_control(data, d, cfg) ==
    IF Len(data) # 5 THEN Raise("ValueError") ELSE
    LET time == data[1] + 1
        thermal == simulate_process_equipment(data[5], d.mod, d.shock, d.noise)
        temp == Max(data[2] + TempDelta(thermal, cfg), MinTemp)
        b == simulate_breathing_changes(data[3], data[4], temp, d.jc, d.jo, cfg)
    IN  IF b.exc # "none" THEN b
        ELSE Return(<<time, temp, b.val[1], b.val[2], thermal>>)

(***************************************************************************)
(* simulate_airsealed_room_with_control(data, hvac_data)                   *)
(***************************************************************************)
\* faulty variant: the temperature adjustment is added after the breathing step
WithControlAdjustsTempLast(data, hvac_data, d, cfg) ==
    IF Len(data) # 5 \/ Len(hvac_data) # 3 THEN Raise("ValueError") ELSE
    LET time == data[1] + 1
        thermal == simulate_process_equipment(data[5], d.mod, d.shock, d.noise)
        temp0 == data[2] + TempDelta(thermal, cfg)
        temp == IF temp0 < MinTemp THEN MinTemp ELSE temp0
        b == simulate_breathing_changes(data[3], data[4], temp, d.jc, d.jo, cfg)
    IN  IF b.exc # "none" THEN b
        ELSE Return(<<time, temp + hvac_data[1], b.val[1] + hvac_data[2],
                      b.val[2] + hvac_data[3], thermal>>)

\* faulty variant: the sums are clamped again
ReclampWithControl(data, hvac_data, d, cfg) ==
    IF Len(data) # 5 \/ Len(hvac_data) # 3 THEN Raise("ValueError") ELSE
    LET time == data[1] + 1
        thermal == simulate_process_equipment(data[5], d.mod, d.shock, d.noise)
        temp0 == data[2] + (TempDelta(thermal, cfg) + hvac_data[1])
        temp == IF temp0 < MinTemp THEN MinTemp ELSE temp0
        b == simulate_breathing_changes(data[3], data[4], temp, d.jc, d.jo, cfg)
    IN  IF b.exc # "none" THEN b
        ELSE Return(<<time, temp, Clamp(b.val[1] + hvac_data[2]),
                      Clamp(b.val[2] + hvac_data[3]), thermal>>)

simulate_airsealed_room_with_control(data, hvac_data, d, cfg) ==
    IF Len(data) # 5 \/ Len(hvac_data) # 3 THEN Raise("ValueError") ELSE
    LET time == data[1] + 1
        thermal == simulate_process_equipment(data[5], d.mod, d.shock, d.noise)
        temp0 == data[2] + (TempDelta(thermal, cfg) + hvac_data[1])
        temp == IF temp0 < MinTemp THEN MinTemp ELSE temp0
        b == simulate_breathing_changes(data[3], data[4], temp, d.jc, d.jo, cfg)
    IN  IF b.exc # "none" THEN b
        ELSE Return(<<time, temp, b.val[1] + hvac_data[2], b.val[2] + hvac_data[3], thermal>>)

(***************************************************************************)
(* HVAC.py: class PID.  Gains are in tenths, so update returns tenths of   *)
(* the measurement's unit.                                                 *)
(***************************************************************************)
\* faulty variant: the stored error starts at the setpoint
PIDStartsAtSetpoint(Kp, Ki, Kd, setpoint) ==
    [Kp |-> Kp, Ki |-> Ki, Kd |-> Kd, setpoint |-> setpoint,
     previous_error |-> setpoint, integral |-> 0]

PID(Kp, Ki, Kd, setpoint) ==
    [Kp |-> Kp, Ki |-> Ki, Kd |-> Kd, setpoint |-> setpoint,
     previous_error |-> 0, integral |-> 0]

\* faulty variant: the error is not saved for the next call
PIDUpdateKeepsError(pid, measurement, dt) ==
    LET error == pid.setpoint - measurement
        integral == pid.integral + error * dt
        derivative == IF dt > 0 THEN (error - pid.previous_error) \div dt ELSE 0
    IN  [exc |-> "none",
         output |-> pid.Kp * error + pid.Ki * integral + pid.Kd * derivative,
         pid |-> [pid EXCEPT !.integral = integral]]

\* faulty variant: the division is not guarded
PIDUpdateDividesByZero(pid, measurement, dt) ==
    LET error == pid.setpoint - measurement
        integral == pid.integral + error * dt
        derivative == IF dt # 0 THEN (error - pid.previous_error) \div dt ELSE 0
    IN  IF dt = 0
        THEN [exc |-> "ZeroDivisionError", output |-> 0,
              pid |-> [pid EXCEPT !.integral = integral]]
        ELSE [exc |-> "none",
              output |-> pid.Kp * error + pid.Ki * integral + pid.Kd * derivative,
              pid |-> [pid EXCEPT !.integral = integral, !.previous_error = error]]

\* faulty variant: the integral is held within +-20.00 (an anti-windup guard)
PIDUpdateClampsIntegral(pid, measurement, dt) ==
    LET error == pid.setpoint - measurement
        integral == Max(Min(pid.integral + error * dt, 20 * 100), (-20) * 100)
        derivative == IF dt > 0 THEN (error - pid.previous_error) \div dt ELSE 0
    IN  [exc |-> "none",
         output |-> pid.Kp * error + pid.Ki * integral + pid.Kd * derivative,
         pid |-> [pid EXCEPT !.integral = integral, !.previous_error = error]]

\* faulty variant: the output uses the integral as it was before the call
PIDUpdateOldIntegral(pid, measurement, dt) ==
    LET error == pid.setpoint - measurement
        integral == pid.integral + error * dt
        derivative == IF dt > 0 THEN (error - pid.previous_error) \div dt ELSE 0
    IN  [exc |-> "none",
         output |-> pid.Kp * error + pid.Ki * pid.integral + pid.Kd * derivative,
         pid |-> [pid EXCEPT !.integral = integral, !.previous_error = error]]

\* faulty variant: the setpoint follows the measurement
PIDUpdateMovesSetpoint(pid, measurement, dt) ==
    LET error == pid.setpoint - measurement
        integral == pid.integral + error * dt
        derivative == IF dt > 0 THEN (error - pid.previous_error) \div dt ELSE 0
    IN  [exc |-> "none",
         output |-> pid.Kp * error + pid.Ki * integral + pid.Kd * derivative,
         pid |-> [pid EXCEPT !.integral = integral, !.previous_error = error,
                             !.setpoint = measurement]]

\* PID.update(measurement, dt): the returned output and the controller after
\* the call; no statement of it can raise for numbers
PIDUpdate(pid, measurement, dt) ==
    LET error == pid.setpoint - measurement
        integral == pid.integral + error * dt
        derivative == IF dt > 0 THEN (error - pid.previous_error) \div dt ELSE 0
    IN  [exc |-> "none",
         output |-> pid.Kp * error + pid.Ki * integral + pid.Kd * derivative,
         pid |-> [pid EXCEPT !.integral = integral, !.previous_error = error]]

(***************************************************************************)
(* use_hvac(data, pid_temp, pid_co2, pid_o2): the first result is again a  *)
(* five-element list [time, temp, co2, o2, thermal].  The three            *)
(* controllers are distinct objects; `data` is the caller's list after the *)
(* call (the function only rebinds its local names).                       *)
(***************************************************************************)
\* faulty variant: the CO2 and O2 outputs change places
UseHvacSwapsGasOutputs(data, pid_temp, pid_co2, pid_o2) ==
    LET t == PIDUpdate(pid_temp, data[2], 1)
        c == PIDUpdate(pid_co2, data[3], 1)
        o == PIDUpdate(pid_o2, data[4], 1)
    IN  [hvac_data |-> <<data[1], t.output, o.output, c.output, data[5]>>,
         pid_temp |-> t.pid, pid_co2 |-> c.pid, pid_o2 |-> o.pid, data |-> data]

use_hvac(data, pid_temp, pid_co2, pid_o2) ==
    LET t == PIDUpdate(pid_temp, data[2], 1)
        c == PIDUpdate(pid_co2, data[3], 1)
        o == PIDUpdate(pid_o2, data[4], 1)
    IN  [hvac_data |-> <<data[1], t.output, c.output, o.output, data[5]>>,
         pid_temp |-> t.pid, pid_co2 |-> c.pid, pid_o2 |-> o.pid, data |-> data]

(***************************************************************************)
(* The `random` module: a seeded generator.  Each draw advances the state; *)
(* random() < 0.01 is one draw in a hundred, randint and randrange spread  *)
(* the state evenly over their range.                                      *)
(***************************************************************************)
RngNext(s) == (s * 61 + 17) % 1009
RandomBelowOnePercent(s) == s * 100 < 1009
RandInt(s, lo, hi) == lo + (s * (hi - lo + 1)) \div 1009

\* The draws of one step function call, in the order the code makes them, and
\* the generator after them.
StepDraws(s, cfg) ==
    LET s1 == RngNext(s)
        mod == RandomBelowOnePercent(s1)
        s2 == IF mod THEN RngNext(s1) ELSE s1
        s3 == RngNext(s2)
        s4 == RngNext(s3)
        s5 == RngNext(s4)
        dc == JitterDiff(co2_gen_per_person(cfg))
        do == JitterDiff(o2_cons_per_person(cfg))
    IN  [d |-> [mod |-> mod,
                shock |-> RandInt(s2, -ShockMax, ShockMax),
                noise |-> RandInt(s3, -NoiseMax, NoiseMax),
                jc |-> RandInt(s4, -dc, dc - 1),
                jo |-> RandInt(s5, -do, do - 1)],
         rng |-> s5]

(***************************************************************************)
(* process_model.py                                                        *)
(***************************************************************************)
Unbound == <<"unbound">>     \* a local variable that was never assigned
None == <<"None">>
start_time == 0

\* faulty variant: the loop stops one pass early
TicksShort(cfg) == cfg.hours_run * MinutesPerHour - 1

\* range(hours_run*60)
Ticks(cfg) == cfg.hours_run * MinutesPerHour

InitialState(cfg) ==
    <<start_time, cfg.init_temp_C, cfg.init_room_CO2, cfg.init_room_O2, InitThermal>>

\* datetime.isoformat(): the timestamp as text
Isoformat(t) == <<"iso", t>>

DataDict(data) ==
    [time |-> Isoformat(data[1]), temperature |-> data[2], co2 |-> data[3],
     o2 |-> data[4], thermal |-> data[5]]

\* write_json(data, filename): (over)writes <filename>.json
write_json(fs, data_dict, filename) ==
    [k \in (DOMAIN fs) \cup {filename} |-> IF k = filename THEN data_dict ELSE fs[k]]

Top == stack[Len(stack)]
SetTop(f) == [stack EXCEPT ![Len(stack)] = f]

\* an unhandled exception unwinds every frame: process_model.py catches nothing
Propagate(e) ==
    /\ stack' = <<>>
    /\ outcome' = e

NoteStep(name, arg) ==
    [trace EXCEPT !.last_fn = name, !.last_arg = arg,
                  !.no_control = @ + (IF name = "no_control" THEN 1 ELSE 0),
                  !.with_control = @ + (IF name = "with_control" THEN 1 ELSE 0)]

NewTrace(name) ==
    [fn |-> name, fresh |-> (time_list = <<>>), writes |-> <<>>,
     no_control |-> 0, with_control |-> 0, last_fn |-> "none", last_arg |-> <<>>]

Lists == <<time_list, temp_list, co2_list, o2_list, thermal_list>>

(***************************************************************************)
(* process_for_sql()                                                       *)
(***************************************************************************)
CallProcessForSql ==
    /\ stack = <<>>
    /\ calls < MaxCalls
    /\ calls' = calls + 1
    /\ outcome' = "none"
    /\ trace' = NewTrace("process_for_sql")
    /\ stack' = <<[fn |-> "process_for_sql", i |-> 0, data |-> Unbound, hvac_data |-> None,
                   pid_temp |-> PID(config.temp_k[1], config.temp_k[2], config.temp_k[3], TempSetpoint),
                   pid_co2 |-> PID(config.co2_k[1], config.co2_k[2], config.co2_k[3], CO2Setpoint),
                   pid_o2 |-> PID(config.o2_k[1], config.o2_k[2], config.o2_k[3], O2Setpoint)]>>
    /\ UNCHANGED <<config, rng, Lists, files, fn>>

\* Which step function one pass of the loop body calls, and on what:
\* `if not time_list` picks the seeded state, else the local `data`.
SqlStepFn(f) == IF time_list = <<>> THEN "no_control" ELSE "with_control"
SqlStepArg(f) == IF time_list = <<>> THEN InitialState(config) ELSE f.data

\* One pass of the loop body of process_for_sql.
SqlTick ==
    /\ stack # <<>>
    /\ Top.fn = "process_for_sql"
    /\ Top.i < Ticks(config)
    /\ LET f == Top
           arg == SqlStepArg(f)
           sd == StepDraws(rng, config)
       IN  IF arg = Unbound
           THEN \* `data` is read before any assignment
                /\ Propagate("UnboundLocalError")
                /\ UNCHANGED <<rng, files, trace>>
           ELSE
           LET h0 == use_hvac(arg, f.pid_temp, f.pid_co2, f.pid_o2)
               r == IF SqlStepFn(f) = "no_control"
                    THEN simulate_airsealed_room_no_control(arg, sd.d, config)
                    ELSE simulate_airsealed_room_with_control(arg, h0.hvac_data, sd.d, config)
               \* the first branch measures the state it has just stepped
               h == IF SqlStepFn(f) = "no_control" /\ r.exc = "none"
                    THEN use_hvac(r.val, f.pid_temp, f.pid_co2, f.pid_o2)
                    ELSE h0
           IN  IF r.exc # "none"
               THEN /\ Propagate(r.exc)
                    /\ rng' = (IF SqlStepFn(f) = "with_control" /\ Len(h0.hvac_data) # 3
                               THEN rng      \* the unpacking fails before any draw
                               ELSE sd.rng)
                    /\ trace' = NoteStep(SqlStepFn(f), arg)
                    /\ UNCHANGED files
               ELSE /\ rng' = sd.rng
                    /\ files' = write_json(files, DataDict(r.val), f.i + 1)
                    /\ trace' = [NoteStep(SqlStepFn(f), arg) EXCEPT !.writes = Append(@, f.i + 1)]
                    /\ stack' = SetTop([f EXCEPT !.i = f.i + 1, !.data = r.val,
                                                 !.hvac_data = h.hvac_data,
                                                 !.pid_temp = h.pid_temp,
                                                 !.pid_co2 = h.pid_co2,
                                                 !.pid_o2 = h.pid_o2])
                    /\ UNCHANGED outcome
    /\ UNCHANGED <<config, Lists, calls, fn>>

\* The loop is exhausted: process_for_sql returns.
SqlReturn ==
    /\ stack # <<>>
    /\ Top.fn = "process_for_sql"
    /\ Top.i = Ticks(config)
    /\ stack' = SubSeq(stack, 1, Len(stack) - 1)
    /\ outcome' = "returned"
    /\ UNCHANGED <<config, rng, Lists, files, calls, trace, fn>>

(***************************************************************************)
(* process_for_dataframe() and plot_data(), which call each other.         *)
(***************************************************************************)
CallProcessForDataframe ==
    /\ stack = <<>>
    /\ calls < MaxCalls
    /\ calls' = calls + 1
    /\ outcome' = "none"
    /\ trace' = NewTrace("process_for_dataframe")
    /\ stack' = <<[fn |-> "process_for_dataframe", i |-> 0, data |-> Unbound]>>
    /\ UNCHANGED <<config, rng, Lists, files, fn>>

\* faulty variant: every pass steps the seeded state
DfStepArgAlwaysInitial(f) == InitialState(config)

\* `if not time_list` picks the seeded state, else the local `data`.
DfStepArg(f) == IF time_list = <<>> THEN InitialState(config) ELSE f.data

\* One pass of the loop body of process_for_dataframe.
DfTick ==
    /\ stack # <<>>
    /\ Top.fn = "process_for_dataframe"
    /\ Top.i < Ticks(config)
    /\ LET f == Top
           arg == DfStepArg(f)
           sd == StepDraws(rng, config)
           r == simulate_airsealed_room_no_control(arg, sd.d, config)
       IN  IF arg = Unbound
           THEN \* `data` is read before any assignment in this frame
                /\ Propagate("UnboundLocalError")
                /\ UNCHANGED <<rng, files, trace, Lists>>
           ELSE IF r.exc # "none"
           THEN /\ Propagate(r.exc)
                /\ rng' = sd.rng
                /\ trace' = NoteStep("no_control", arg)
                /\ UNCHANGED <<files, Lists>>
           ELSE /\ rng' = sd.rng
                /\ files' = write_json(files, DataDict(r.val), f.i + 1)
                /\ trace' = [NoteStep("no_control", arg) EXCEPT !.writes = Append(@, f.i + 1)]
                /\ time_list' = Append(time_list, r.val[1])
                /\ temp_list' = Append(temp_list, r.val[2])
                /\ co2_list' = Append(co2_list, r.val[3])
                /\ o2_list' = Append(o2_list, r.val[4])
                /\ thermal_list' = Append(thermal_list, r.val[5])
                /\ stack' = SetTop([f EXCEPT !.i = f.i + 1, !.data = r.val])
                /\ UNCHANGED outcome
    /\ UNCHANGED <<config, calls, fn>>

\* A call when the interpreter's frame limit is reached raises RecursionError.
PushFrame(f) ==
    IF Len(stack) >= RecursionLimit
    THEN Propagate("RecursionError")
    ELSE /\ stack' = Append(stack, f)
         /\ UNCHANGED outcome

\* The loop is exhausted: process_for_dataframe calls plot_data(...).
DfCallPlotData ==
    /\ stack # <<>>
    /\ Top.fn = "process_for_dataframe"
    /\ Top.i = Ticks(config)
    /\ PushFrame([fn |-> "plot_data"])
    /\ UNCHANGED <<config, rng, Lists, files, calls, trace, fn>>

\* plot_data: after plt.subplots it calls process_for_dataframe().  Neither
\* function has any other way on, so neither ever gets to return.
PlotDataCallProcess ==
    /\ stack # <<>>
    /\ Top.fn = "plot_data"
    /\ PushFrame([fn |-> "process_for_dataframe", i |-> 0, data |-> Unbound])
    /\ UNCHANGED <<config, rng, Lists, files, calls, trace, fn>>

(***************************************************************************)
(* The driver as one process: the configuration is loaded at import, then  *)
(* process_for_sql and process_for_dataframe are called one after another. *)
(***************************************************************************)
Gains == {<<10, 1, 0>>, <<20, 5, 1>>}

\* Rooms small enough that the jitter range of mod_breathing is not empty.
DriverConfigs ==
    [hours_run : 0..MaxHours,
     init_temp_C : {2200},
     init_room_CO2 : {400 * 1000, 450 * 1000},
     init_room_O2 : {209500 * 1000},
     room_volume : {60, 120},
     occupants : {4},
     temp_k : Gains, co2_k : {<<10, 1, 0>>}, o2_k : {<<10, 1, 0>>}]

NoFn == [name |-> "none"]

Init ==
    /\ config \in DriverConfigs
    /\ rng \in 0..MaxSeed
    /\ time_list = <<>>
    /\ temp_list = <<>>
    /\ co2_list = <<>>
    /\ o2_list = <<>>
    /\ thermal_list = <<>>
    /\ files = <<>>
    /\ stack = <<>>
    /\ outcome = "none"
    /\ calls = 0
    /\ trace = NewTrace("none")
    /\ fn = NoFn

Next ==
    \/ CallProcessForSql
    \/ SqlTick
    \/ SqlReturn
    \/ CallProcessForDataframe
    \/ DfTick
    \/ DfCallPlotData
    \/ PlotDataCallProcess

Spec == Init /\ [][Next]_vars

(***************************************************************************)
(* The functions of model.py called directly, as the unit tests do: one    *)
(* call on inputs drawn from the sets below, then the result is dropped.   *)
(***************************************************************************)
FnConfigs ==
    [hours_run : {1},
     init_temp_C : {2200},
     init_room_CO2 : {400 * 1000},
     init_room_O2 : {209500 * 1000},
     room_volume : {60, 120, 40000},
     occupants : {0, 4},
     temp_k : {<<10, 1, 0>>}, co2_k : {<<10, 1, 0>>}, o2_k : {<<10, 1, 0>>}]

\* ppm * 1000: negative, 0, typical, just under the cap, the cap, beyond it
GasInputs == {(-5000) * 1000, 0, 400 * 1000, 999999 * 1000, 1000000 * 1000, 1500000 * 1000}
\* C * 100: below the floor, the floor, negative, 0, typical, the reference, hot
TempInputs == {-30000, -27300, -2500, 0, 2200, 2500, 30000}
ThermalInputs == {-999999, 5000, InitThermal}

\* randrange(-diff, diff): both ends and the middle; an empty range draws nothing
JitterDraws(diff) == IF diff <= 0 THEN {0} ELSE {-diff, 0, diff - 1}
NoiseDraws == {-NoiseMax, 0, NoiseMax}
ShockDraws(mod) == IF mod THEN {-ShockMax, ShockMax} ELSE {0}

HvacTempInputs == {-10000, 0, 50000}
HvacGasInputs == {(-10000) * 1000, 0, 100000 * 1000, 500000 * 1000}

FnInit ==
    /\ config \in FnConfigs
    /\ rng = 0
    /\ time_list = <<>>
    /\ temp_list = <<>>
    /\ co2_list = <<>>
    /\ o2_list = <<>>
    /\ thermal_list = <<>>
    /\ files = <<>>
    /\ stack = <<>>
    /\ outcome = "none"
    /\ calls = 0
    /\ trace = NewTrace("none")
    /\ fn = NoFn

FnFrame == UNCHANGED <<config, rng, Lists, files, stack, outcome, calls, trace>>

FnBreathing ==
    /\ fn = NoFn
    /\ \E co2 \in GasInputs, o2 \in GasInputs, temp \in TempInputs,
          jc \in JitterDraws(JitterDiff(co2_gen_per_person(config))),
          jo \in JitterDraws(JitterDiff(o2_cons_per_person(config))) :
         fn' = [name |-> "simulate_breathing_changes",
                co2 |-> co2, o2 |-> o2, temp |-> temp, jc |-> jc, jo |-> jo,
                res |-> simulate_breathing_changes(co2, o2, temp, jc, jo, config)]
    /\ FnFrame

FnProcessEquipment ==
    /\ fn = NoFn
    /\ \E thermal \in ThermalInputs, mod \in BOOLEAN, noise \in NoiseDraws :
       \E shock \in ShockDraws(mod) :
         fn' = [name |-> "simulate_process_equipment", thermal |-> thermal,
                mod |-> mod, shock |-> shock, noise |-> noise,
                res |-> Return(simulate_process_equipment(thermal, mod, shock, noise))]
    /\ FnFrame

FnNoControl ==
    /\ fn = NoFn
    /\ \E time \in {0, 7}, temp \in {-27000, -20000, 2200, 30000},
          co2 \in {0, 400 * 1000, 999999 * 1000, 1500000 * 1000},
          o2 \in {(-5000) * 1000, 21 * 1000, 1000000 * 1000},
          thermal \in ThermalInputs, mod \in BOOLEAN, noise \in NoiseDraws,
          jc \in JitterDraws(JitterDiff(co2_gen_per_person(config))) :
       \E shock \in ShockDraws(mod) :
         LET data == <<time, temp, co2, o2, thermal>>
             d == [mod |-> mod, shock |-> shock, noise |-> noise, jc |-> jc, jo |-> 0]
         IN  fn' = [name |-> "simulate_airsealed_room_no_control", data |-> data, d |-> d,
                    res |-> simulate_airsealed_room_no_control(data, d, config)]
    /\ FnFrame

FnWithControl ==
    /\ fn = NoFn
    /\ \E time \in {0, 7}, temp \in {-20000, 2200},
          co2 \in {400 * 1000, 999999 * 1000},
          o2 \in {21 * 1000, 999999 * 1000}, thermal \in {-999999, 5000},
          mod \in BOOLEAN, noise \in {-NoiseMax, NoiseMax},
          jc \in JitterDraws(JitterDiff(co2_gen_per_person(config))),
          hvac_temp \in HvacTempInputs, hvac_co2 \in HvacGasInputs,
          hvac_o2 \in HvacGasInputs :
       \E shock \in ShockDraws(mod) :
         LET data == <<time, temp, co2, o2, thermal>>
             hvac_data == <<hvac_temp, hvac_co2, hvac_o2>>
             d == [mod |-> mod, shock |-> shock, noise |-> noise, jc |-> jc, jo |-> 0]
         IN  fn' = [name |-> "simulate_airsealed_room_with_control", data |-> data,
                    hvac_data |-> hvac_data, d |-> d,
                    res |-> simulate_airsealed_room_with_control(data, hvac_data, d, config)]
    /\ FnFrame

\* the caller drops the result
FnDone ==
    /\ fn # NoFn
    /\ fn' = NoFn
    /\ FnFrame

FnNext ==
    \/ FnBreathing
    \/ FnProcessEquipment
    \/ FnNoControl
    \/ FnWithControl
    \/ FnDone

SpecFn == FnInit /\ [][FnNext]_vars

(***************************************************************************)
(* Direct use of HVAC.py (SpecPid): a controller is constructed and        *)
(* updated up to MaxUpdates times, or use_hvac is called up to             *)
(* MaxHvacCalls times on three controllers of its own.  Measurements are   *)
(* in hundredths, dt in whole time units.                                  *)
(***************************************************************************)
\* <<Kp, Ki, Kd, setpoint>>: PID(2.0, 0.5, 0.1, 22), PID(0, 0, 10, 25),
\* PID(0, 1, 0, 25), PID(1, 1, 1, 22)
PidArgs == {<<20, 5, 1, 22 * 100>>, <<0, 0, 100, 25 * 100>>,
            <<0, 10, 0, 25 * 100>>, <<10, 10, 10, 22 * 100>>}

\* measurements at the setpoint, 2 and 5 below it and 3 above it
Measurements(setpoint) ==
    {setpoint - 5 * 100, setpoint - 2 * 100, setpoint, setpoint + 3 * 100}

DtInputs == {-1, 0, 1, 2}

PidInit ==
    /\ config \in {c \in FnConfigs : c.room_volume = 60 /\ c.occupants = 4}
    /\ rng = 0
    /\ time_list = <<>>
    /\ temp_list = <<>>
    /\ co2_list = <<>>
    /\ o2_list = <<>>
    /\ thermal_list = <<>>
    /\ files = <<>>
    /\ stack = <<>>
    /\ outcome = "none"
    /\ calls = 0
    /\ trace = NewTrace("none")
    /\ fn = NoFn

\* pid = PID(Kp, Ki, Kd, setpoint).  The record keeps, next to the controller,
\* what the calls made on it were: their number n, the last call's arguments,
\* result and the controller before it (`before`), the error of the call before
\* that one (`error_before`), the sum of error*dt over all calls (`sum`) and
\* whether all calls had the same arguments (`uniform`).
PidConstruct ==
    /\ fn = NoFn
    /\ \E a \in PidArgs :
         LET pid == PID(a[1], a[2], a[3], a[4])
         IN  fn' = [name |-> "PID.__init__", init |-> pid, pid |-> pid, before |-> pid,
                    n |-> 0, measurement |-> 0, dt |-> 0, exc |-> "none", output |-> 0,
                    error_before |-> 0, error |-> 0, sum |-> 0, uniform |-> TRUE]
    /\ FnFrame

PidUpdate ==
    /\ fn.name \in {"PID.__init__", "PID.update"}
    /\ fn.exc = "none"
    /\ fn.n < MaxUpdates
    /\ \E measurement \in Measurements(fn.init.setpoint), dt \in DtInputs :
         LET r == PIDUpdate(fn.pid, measurement, dt)
             error == fn.init.setpoint - measurement
         IN  fn' = [name |-> "PID.update", init |-> fn.init, pid |-> r.pid,
                    before |-> fn.pid, n |-> fn.n + 1,
                    measurement |-> measurement, dt |-> dt,
                    exc |-> r.exc, output |-> r.output,
                    error_before |-> fn.error, error |-> error,
                    sum |-> fn.sum + error * dt,
                    uniform |-> fn.uniform /\ (fn.n = 0 \/ (measurement = fn.measurement
                                                           /\ dt = fn.dt))]
    /\ FnFrame

\* the arguments of use_hvac: a state and three controllers, with the gains of
\* process_for_sql or with all gains zero
HvacData ==
    {<<time, temp, co2, o2, InitThermal>> :
        time \in {0, 7}, temp \in {22 * 100, 25 * 100, 30 * 100},
        co2 \in {400 * 1000, 450 * 1000}, o2 \in {209500 * 1000, 210000 * 1000}}

HvacGains == Gains \cup {<<0, 0, 0>>}

PidUseHvac ==
    /\ \/ fn = NoFn
       \/ fn.name = "use_hvac" /\ fn.n < MaxHvacCalls
    /\ \E data \in HvacData, k \in HvacGains :
         LET first == fn = NoFn
             pid_temp == IF first THEN PID(k[1], k[2], k[3], TempSetpoint) ELSE fn.res.pid_temp
             pid_co2 == IF first THEN PID(k[1], k[2], k[3], CO2Setpoint) ELSE fn.res.pid_co2
             pid_o2 == IF first THEN PID(k[1], k[2], k[3], O2Setpoint) ELSE fn.res.pid_o2
         IN  fn' = [name |-> "use_hvac", n |-> IF first THEN 1 ELSE fn.n + 1,
                    data |-> data, pid_temp |-> pid_temp, pid_co2 |-> pid_co2,
                    pid_o2 |-> pid_o2,
                    res |-> use_hvac(data, pid_temp, pid_co2, pid_o2)]
    /\ FnFrame

PidNext ==
    \/ PidConstruct
    \/ PidUpdate
    \/ PidUseHvac

SpecPid == PidInit /\ [][PidNext]_vars

(***************************************************************************)
(* services/database.py.  The module state is the SQLite file, the         *)
(* connection with its cursor (opened at import, closed together), the     *)
(* table experimental_data and the AUTOINCREMENT counter `seq`.  A row is  *)
(* <<id, time, temperature, co2, o2, thermal>>.                            *)
(***************************************************************************)
\* conn = sqlite3.connect(DB_PATH); cur = conn.cursor()
ConnectDb == [exists |-> TRUE, open |-> TRUE, table |-> FALSE, rows |-> <<>>, seq |-> 0]

DbReturn(db) == [exc |-> "none", db |-> db]
DbRaise(e, db) == [exc |-> e, db |-> db]

\* a Python float handed to SQLite; None and the isoformat text are the other values
Float(x) == <<"float", x>>
HasNone(values) == \E k \in DOMAIN values : values[k] = None

\* CREATE TABLE IF NOT EXISTS ...; commit
generate_table(db) ==
    IF ~db.open THEN DbRaise("ProgrammingError", db)
    ELSE DbReturn([db EXCEPT !.table = TRUE])

\* faulty variant: a rejected row uses up an id
InsertDataBurnsId(db, time, temp, co2, o2, thermal) ==
    IF ~db.open THEN DbRaise("ProgrammingError", db)
    ELSE IF ~db.table THEN DbRaise("OperationalError", db)
    ELSE IF HasNone(<<time, temp, co2, o2, thermal>>)
         THEN DbRaise("IntegrityError", [db EXCEPT !.seq = @ + 1])
    ELSE DbReturn([db EXCEPT !.seq = @ + 1,
                             !.rows = Append(@, <<db.seq + 1, time, temp, co2, o2, thermal>>)])

\* INSERT INTO experimental_data (time, temperature, co2, o2, thermal); commit.
\* Every column is NOT NULL; id is INTEGER PRIMARY KEY AUTOINCREMENT.
insert_data(db, time, temp, co2, o2, thermal) ==
    IF ~db.open THEN DbRaise("ProgrammingError", db)
    ELSE IF ~db.table THEN DbRaise("OperationalError", db)
    ELSE IF HasNone(<<time, temp, co2, o2, thermal>>) THEN DbRaise("IntegrityError", db)
    ELSE DbReturn([db EXCEPT !.seq = @ + 1,
                             !.rows = Append(@, <<db.seq + 1, time, temp, co2, o2, thermal>>)])

\* faulty variant: the file is removed but the connection stays open
DeleteDbKeepsConnection(db) ==
    IF ~db.open THEN DbRaise("ProgrammingError", db)
    ELSE DbReturn([db EXCEPT !.exists = FALSE])

\* cur.close(); conn.close(); os.remove(DB_PATH) if it exists.  On a closed
\* connection cur.close() itself raises.
delete_db(db) ==
    IF ~db.open THEN DbRaise("ProgrammingError", db)
    ELSE DbReturn([exists |-> FALSE, open |-> FALSE, table |-> FALSE, rows |-> <<>>, seq |-> 0])

\* display_db.plot_data_from_db: the SELECT on the module's cursor, then the
\* plot; max(co2_list) of no rows raises ValueError.
plot_data_from_db(db) ==
    IF ~db.open THEN DbRaise("ProgrammingError", db)
    ELSE IF ~db.table THEN DbRaise("OperationalError", db)
    ELSE IF db.rows = <<>> THEN DbRaise("ValueError", db)
    ELSE DbReturn(db)

(***************************************************************************)
(* Direct use of services/database.py (SpecDb): up to MaxDbCalls calls of  *)
(* generate_table, insert_data, delete_db and plot_data_from_db on the     *)
(* module as imported.  fn keeps the module state `db`, the state before   *)
(* the last call (`before`), that call and its outcome, and whether        *)
(* delete_db has returned (`deleted`).                                     *)
(***************************************************************************)
DbValues(v) == {v, None}

DbInit ==
    /\ config \in {c \in FnConfigs : c.room_volume = 60 /\ c.occupants = 4}
    /\ rng = 0
    /\ time_list = <<>>
    /\ temp_list = <<>>
    /\ co2_list = <<>>
    /\ o2_list = <<>>
    /\ thermal_list = <<>>
    /\ files = <<>>
    /\ stack = <<>>
    /\ outcome = "none"
    /\ calls = 0
    /\ trace = NewTrace("none")
    /\ fn = [name |-> "database", db |-> ConnectDb, before |-> ConnectDb, n |-> 0,
             call |-> "import", args |-> <<>>, exc |-> "none", deleted |-> FALSE]

DbCall(call, args, r) ==
    /\ fn.n < MaxDbCalls
    /\ fn' = [fn EXCEPT !.db = r.db, !.before = fn.db, !.n = @ + 1, !.call = call,
                        !.args = args, !.exc = r.exc,
                        !.deleted = @ \/ (call = "delete_db" /\ r.exc = "none")]
    /\ FnFrame

DbGenerateTable ==
    /\ fn.name = "database"
    /\ DbCall("generate_table", <<>>, generate_table(fn.db))

DbInsertData ==
    /\ fn.name = "database"
    /\ \E time \in DbValues(Isoformat(1)), temp \in DbValues(Float(2250)),
          co2 \in DbValues(Float(400 * 1000)), o2 \in DbValues(Float(21 * 1000)),
          thermal \in DbValues(Float(5000)) :
         DbCall("insert_data", <<time, temp, co2, o2, thermal>>,
                insert_data(fn.db, time, temp, co2, o2, thermal))

DbDeleteDb ==
    /\ fn.name = "database"
    /\ DbCall("delete_db", <<>>, delete_db(fn.db))

DbPlotDataFromDb ==
    /\ fn.name = "database"
    /\ DbCall("plot_data_from_db", <<>>, plot_data_from_db(fn.db))

DbNext ==
    \/ DbGenerateTable
    \/ DbInsertData
    \/ DbDeleteDb
    \/ DbPlotDataFromDb

SpecDb == DbInit /\ [][DbNext]_vars

(***************************************************************************)
(* api/read_json.py and services/data_processor.py.  A file name is the    *)
(* sequence of its characters; the data directory is given by the list     *)
(* os.listdir returns (any order, no name twice) and by the content of     *)
(* each file.                                                              *)
(***************************************************************************)
Digits == <<"0", "1", "2", "3", "4", "5", "6", "7", "8", "9">>
IsDigit(c) == \E d \in 1..10 : Digits[d] = c
DigitValue(c) == (CHOOSE d \in 1..10 : Digits[d] = c) - 1

\* str(n) for n >= 0
RECURSIVE Str(_)
Str(n) == IF n < 10 THEN <<Digits[n + 1]>> ELSE Append(Str(n \div 10), Digits[(n % 10) + 1])

\* f"{filename}.json"
FileName(filename) == Str(filename) \o <<".", "j", "s", "o", "n">>

\* int(digits)
RECURSIVE ParseInt(_)
ParseInt(digits) ==
    IF digits = <<>> THEN 0
    ELSE ParseInt(SubSeq(digits, 1, Len(digits) - 1)) * 10 + DigitValue(digits[Len(digits)])

HasDigit(x) == \E i \in 1..Len(x) : IsDigit(x[i])

\* re.search(r'\d+', x).group(): the leftmost longest run of digits
FirstDigitRun(x) ==
    LET first == CHOOSE i \in 1..Len(x) : IsDigit(x[i]) /\ \A j \in 1..(i - 1) : ~IsDigit(x[j])
        last == CHOOSE j \in first..Len(x) :
                    /\ \A k \in first..j : IsDigit(x[k])
                    /\ j = Len(x) \/ ~IsDigit(x[j + 1])
    IN  SubSeq(x, first, last)

\* faulty variant: only the first digit counts
SortKeyFirstDigit(x) == ParseInt(SubSeq(FirstDigitRun(x), 1, 1))

\* key=lambda x: int(re.search(r'\d+', x).group())
SortKey(x) == ParseInt(FirstDigitRun(x))

\* sorted(.., key=..) is a stable merge sort: of two names with equal keys the
\* one the listing has first comes first.  Merge(a, b) merges two sorted runs,
\* a being the earlier one, by splitting a; before is the number of names of b
\* that go in front of the second half of a.
RECURSIVE Merge(_, _)
Merge(a, b) ==
    IF a = <<>> THEN b
    ELSE IF b = <<>> THEN a
    ELSE LET half == Len(a) \div 2
             pivot == SortKey(a[half + 1])
             before == Cardinality({j \in 1..Len(b) : SortKey(b[j]) < pivot})
         IN  Merge(SubSeq(a, 1, half), SubSeq(b, 1, before))
                 \o <<a[half + 1]>>
                 \o Merge(SubSeq(a, half + 2, Len(a)), SubSeq(b, before + 1, Len(b)))

RECURSIVE Sorted(_)
Sorted(names) ==
    IF Len(names) <= 1 THEN names
    ELSE LET half == Len(names) \div 2
         IN  Merge(Sorted(SubSeq(names, 1, half)),
                   Sorted(SubSeq(names, half + 1, Len(names))))

\* get_sorted_json_filepaths(): the key of a name without a digit is
\* None.group(), an AttributeError
get_sorted_json_filepaths(listing) ==
    IF \E k \in 1..Len(listing) : ~HasDigit(listing[k]) THEN Raise("AttributeError")
    ELSE Return(Sorted(listing))

\* extract_row_from_json(file_path): the five columns of the file's record
extract_row_from_json(content) ==
    <<content.time, Float(content.temperature), Float(content.co2), Float(content.o2),
      Float(content.thermal)>>

\* the loop of initialise_db over the sorted paths; dir maps the index k of
\* k.json to the file's content.  The passes run one after another and the
\* first exception ends the loop; the list is split in halves only to keep
\* the evaluation shallow.
RECURSIVE InsertFiles(_, _, _)
InsertFiles(db, paths, dir) ==
    IF paths = <<>> THEN DbReturn(db)
    ELSE IF Len(paths) = 1
    THEN LET row == extract_row_from_json(dir[SortKey(paths[1])])
         IN  insert_data(db, row[1], row[2], row[3], row[4], row[5])
    ELSE LET half == Len(paths) \div 2
             r == InsertFiles(db, SubSeq(paths, 1, half), dir)
         IN  IF r.exc # "none" THEN r
             ELSE InsertFiles(r.db, SubSeq(paths, half + 1, Len(paths)), dir)

\* initialise_db()
initialise_db(db, listing, dir) ==
    LET g == generate_table(db)
        paths == get_sorted_json_filepaths(listing)
    IN  IF g.exc # "none" THEN g
        ELSE IF paths.exc # "none" THEN DbRaise(paths.exc, g.db)
        ELSE InsertFiles(g.db, paths.val, dir)

(***************************************************************************)
(* Direct use of read_json.py and data_processor.py (SpecJson): one call   *)
(* of get_sorted_json_filepaths on a directory of up to MaxListing names,  *)
(* or one call of initialise_db on the directory a run of up to            *)
(* MaxFilesWritten ticks has written.                                      *)
(***************************************************************************)
NamePool ==
    {FileName(1), FileName(2), FileName(10), FileName(20),
     <<"0", "2", ".", "j", "s", "o", "n">>,
     <<"r", "3", "_", "1", "2">>,
     <<"a", ".", "t", "x", "t">>}

\* os.listdir: arbitrary order, every entry once
Listings ==
    UNION {{l \in [1..n -> NamePool] : \A i, j \in 1..n : l[i] = l[j] => i = j} : n \in 0..MaxListing}

\* the files 1.json .. n.json listed in ascending, in descending or in
\* alphabetical order (1, 10, 11, .., 2, 3, ..)
RunListings(n) ==
    LET up == [k \in 1..n |-> k]
        down == [k \in 1..n |-> n + 1 - k]
        alpha == IF n < 10 THEN up
                 ELSE <<1>> \o [k \in 1..(n - 9) |-> k + 9] \o [k \in 1..8 |-> k + 1]
    IN  {[k \in 1..n |-> FileName(o[k])] : o \in {up, down, alpha}}

\* what write_json has stored under the index k at tick k
RunFiles(n) ==
    [k \in 1..n |-> DataDict(<<start_time + k, 2200 + k, 400 * 1000, 209500 * 1000, InitThermal>>)]

JsonGetSorted ==
    /\ fn = NoFn
    /\ \E listing \in Listings :
         fn' = [name |-> "get_sorted_json_filepaths", listing |-> listing,
                res |-> get_sorted_json_filepaths(listing)]
    /\ FnFrame

JsonInitialiseDb ==
    /\ fn = NoFn
    /\ \E n \in 0..MaxFilesWritten : \E listing \in RunListings(n) :
         fn' = [name |-> "initialise_db", n |-> n, listing |-> listing, dir |-> RunFiles(n),
                res |-> initialise_db(ConnectDb, listing, RunFiles(n))]
    /\ FnFrame

JsonNext ==
    \/ JsonGetSorted
    \/ JsonInitialiseDb

SpecJson == FnInit /\ [][JsonNext]_vars

(***************************************************************************)
(* main.py run as a script (SpecMain).  fn holds the position of the       *)
(* top-level code (`pc`), the database module's state and the list of the  *)
(* functions called so far; process_for_dataframe and process_for_sql run  *)
(* on the stack as in Spec.  Nothing in main.py catches an exception: one  *)
(* that reaches the top level ends the script (pc = "raised").             *)
(* start_server is taken to return (the server is stopped by the user).    *)
(***************************************************************************)
MainConfigs ==
    {[k \in (DOMAIN c) \cup {"database_type"} |->
         IF k = "database_type" THEN t ELSE c[k]] :
        c \in DriverConfigs, t \in {"dataframe", "sql"}}

MainInit ==
    /\ config \in MainConfigs
    /\ rng \in 0..MaxSeed
    /\ time_list = <<>>
    /\ temp_list = <<>>
    /\ co2_list = <<>>
    /\ o2_list = <<>>
    /\ thermal_list = <<>>
    /\ files = <<>>
    /\ stack = <<>>
    /\ outcome = "none"
    /\ calls = 0
    /\ trace = NewTrace("none")
    /\ fn = [name |-> "main", pc |-> "start", db |-> ConnectDb, log |-> <<>>]

AtMain(pc) == fn.name = "main" /\ fn.pc = pc /\ stack = <<>>

MainGoto(pc, called) == [fn EXCEPT !.pc = pc, !.log = Append(@, called)]

\* main.py:47-53: the simulation of the configured kind is called
MainRunSimulation ==
    /\ AtMain("start")
    /\ calls' = calls + 1
    /\ outcome' = "none"
    /\ IF config.database_type = "dataframe"
       THEN /\ trace' = NewTrace("process_for_dataframe")
            /\ stack' = <<[fn |-> "process_for_dataframe", i |-> 0, data |-> Unbound]>>
            /\ fn' = MainGoto("simulation", "process_for_dataframe")
       ELSE /\ trace' = NewTrace("process_for_sql")
            /\ stack' = <<[fn |-> "process_for_sql", i |-> 0, data |-> Unbound,
                           hvac_data |-> None,
                           pid_temp |-> PID(config.temp_k[1], config.temp_k[2],
                                            config.temp_k[3], TempSetpoint),
                           pid_co2 |-> PID(config.co2_k[1], config.co2_k[2],
                                           config.co2_k[3], CO2Setpoint),
                           pid_o2 |-> PID(config.o2_k[1], config.o2_k[2],
                                          config.o2_k[3], O2Setpoint)]>>
            /\ fn' = MainGoto("simulation", "process_for_sql")
    /\ UNCHANGED <<config, rng, Lists, files>>

\* the simulation raised: the script ends with a traceback
MainSimulationRaised ==
    /\ AtMain("simulation")
    /\ outcome \notin {"none", "returned"}
    /\ fn' = [fn EXCEPT !.pc = "raised"]
    /\ UNCHANGED <<config, rng, Lists, files, stack, outcome, calls, trace>>

\* main.py:49-50 / 54: initialise_dataframe() and print, or initialise_db();
\* both read the data directory through get_sorted_json_filepaths
MainInitialise ==
    /\ AtMain("simulation")
    /\ outcome = "returned"
    /\ \E listing \in RunListings(Cardinality(DOMAIN files)) :
         IF config.database_type = "dataframe"
         THEN fn' = (IF get_sorted_json_filepaths(listing).exc = "none"
                     THEN MainGoto("plot", "initialise_dataframe")
                     ELSE MainGoto("raised", "initialise_dataframe"))
         ELSE LET r == initialise_db(fn.db, listing, files)
              IN  fn' = [MainGoto(IF r.exc = "none" THEN "start_server" ELSE "raised",
                                  "initialise_db") EXCEPT !.db = r.db]
    /\ UNCHANGED <<config, rng, Lists, files, stack, outcome, calls, trace>>

\* main.py:55
MainStartServer ==
    /\ AtMain("start_server")
    /\ fn' = MainGoto("plot", "start_server")
    /\ UNCHANGED <<config, rng, Lists, files, stack, outcome, calls, trace>>

\* main.py:57
MainPlotDataFromDb ==
    /\ AtMain("plot")
    /\ LET r == plot_data_from_db(fn.db)
       IN  fn' = MainGoto(IF r.exc = "none" THEN "delete_data" ELSE "raised",
                          "plot_data_from_db")
    /\ UNCHANGED <<config, rng, Lists, files, stack, outcome, calls, trace>>

\* main.py:60: every file of the data directory is removed
MainDeleteData ==
    /\ AtMain("delete_data")
    /\ files' = <<>>
    /\ fn' = MainGoto("delete_pycache_dirs", "delete_data")
    /\ UNCHANGED <<config, rng, Lists, stack, outcome, calls, trace>>

\* main.py:61
MainDeletePycacheDirs ==
    /\ AtMain("delete_pycache_dirs")
    /\ fn' = MainGoto("delete_db", "delete_pycache_dirs")
    /\ UNCHANGED <<config, rng, Lists, files, stack, outcome, calls, trace>>

\* main.py:62
MainDeleteDb ==
    /\ AtMain("delete_db")
    /\ LET r == delete_db(fn.db)
       IN  fn' = [MainGoto(IF r.exc = "none" THEN "done" ELSE "raised", "delete_db")
                     EXCEPT !.db = r.db]
    /\ UNCHANGED <<config, rng, Lists, files, stack, outcome, calls, trace>>

MainNext ==
    \/ MainRunSimulation
    \/ SqlTick
    \/ SqlReturn
    \/ DfTick
    \/ DfCallPlotData
    \/ PlotDataCallProcess
    \/ MainSimulationRaised
    \/ MainInitialise
    \/ MainStartServer
    \/ MainPlotDataFromDb
    \/ MainDeleteData
    \/ MainDeletePycacheDirs
    \/ MainDeleteDb

\* the interpreter keeps executing the script until it ends
SpecMain == MainInit /\ [][MainNext]_vars /\ WF_vars(MainNext)

(***************************************************************************)
(* Properties of the driver (Spec).                                        *)
(***************************************************************************)
InSql == stack # <<>> /\ Top.fn = "process_for_sql"
FreshSql == trace.fn = "process_for_sql" /\ trace.fresh
\* the outermost frame of a process_for_dataframe call that found the lists empty
FreshDfLoop ==
    /\ trace.fn = "process_for_dataframe" /\ trace.fresh
    /\ Len(stack) = 1 /\ Top.fn = "process_for_dataframe"
NoException == outcome \in {"none", "returned"}

C2_LaterTicksUseControl ==
    (FreshSql /\ InSql) =>
        /\ trace.no_control <= 1
        /\ Top.i >= 2 => /\ trace.last_fn = "with_control"
                         /\ DataDict(trace.last_arg) = files[Top.i - 1]

C4_ZeroHoursCompletes ==
    (trace.fn = "process_for_dataframe" /\ trace.fresh /\ config.hours_run = 0) =>
        /\ NoException
        /\ trace.no_control = 0
        /\ trace.writes = <<>>
        /\ time_list = <<>>

\* C5: an uncontrolled run with hours_run >= 1 started with fresh module state
\* makes exactly hours_run*60 calls of simulate_airsealed_room_no_control and
\* hours_run*60 write_json calls and then returns normally, without an exception.
C5_DataframeRunCompletes ==
    (trace.fn = "process_for_dataframe" /\ trace.fresh /\ config.hours_run >= 1) =>
        /\ NoException
        /\ trace.no_control <= config.hours_run * 60
        /\ Len(trace.writes) <= config.hours_run * 60
        /\ outcome = "returned" => /\ trace.no_control = config.hours_run * 60
                                   /\ Len(trace.writes) = config.hours_run * 60

\* C6: in a controlled run the state fed into tick k+1 is the state emitted at
\* tick k, so the record emitted at tick k carries time = start_time + k minutes.
C6_SqlTimestampsAdvance ==
    (FreshSql /\ InSql) =>
        \A k \in 1..Top.i : files[k].time = Isoformat(start_time + k)

\* C7: in an uncontrolled run started with empty accumulator lists, tick 1 steps
\* the configured initial state and every tick k >= 2 steps the state emitted at
\* tick k-1; the k-th record carries time = start_time + k minutes and the
\* accumulator lists have length k after tick k.
C7_DataframeFold ==
    FreshDfLoop =>
        LET k == Top.i IN
        /\ Len(time_list) = k /\ Len(temp_list) = k /\ Len(co2_list) = k
        /\ Len(o2_list) = k /\ Len(thermal_list) = k
        /\ \A j \in 1..k : /\ files[j].time = Isoformat(start_time + j)
                           /\ time_list[j] = start_time + j
        /\ k >= 1 => /\ files[k] = DataDict(Top.data)
                     /\ trace.last_fn = "no_control"
                     /\ trace.no_control = k
        /\ k = 1 => trace.last_arg = InitialState(config)
        /\ k >= 2 => DataDict(trace.last_arg) = files[k - 1]

C7_Witness ==
    /\ FreshDfLoop
    /\ Top.i = 60
    /\ Len(time_list) = 60
    /\ files[60].time = Isoformat(start_time + 60)
    /\ DataDict(trace.last_arg) = files[59]

(***************************************************************************)
(* Properties of the functions of model.py (SpecFn).                       *)
(***************************************************************************)
InRange(x) == 0 <= x /\ x <= GasMax
Returned(name) == fn.name = name /\ fn.res.exc = "none"

\* C8: every state returned by simulate_airsealed_room_with_control has
\* 0 <= co2 <= 1000000 and 0 <= o2 <= 1000000, whatever the control adjustments.
C8_ControlledGasInRange ==
    Returned("simulate_airsealed_room_with_control") =>
        InRange(fn.res.val[3]) /\ InRange(fn.res.val[4])

C10_BreathingClamped ==
    /\ Returned("simulate_breathing_changes") =>
           InRange(fn.res.val[1]) /\ InRange(fn.res.val[2])
    /\ Returned("simulate_airsealed_room_no_control") =>
           InRange(fn.res.val[3]) /\ InRange(fn.res.val[4])

C10_Witness ==
    /\ Returned("simulate_breathing_changes")
    /\ fn.co2 = 1500000 * 1000 /\ fn.o2 = (-5000) * 1000
    /\ fn.res.val = <<GasMax, 0>>

\* C11: neither step function returns a temperature below -273 C, whatever the
\* input temperature, thermal energy (-999999 J from -200 C included), noise and
\* temperature adjustment (-100 C included).
C11_TemperatureFloor ==
    /\ Returned("simulate_airsealed_room_no_control") => fn.res.val[2] >= (-273) * 100
    /\ Returned("simulate_airsealed_room_with_control") => fn.res.val[2] >= (-273) * 100

C11_Witness ==
    /\ Returned("simulate_airsealed_room_with_control")
    /\ fn.data[2] = (-200) * 100 /\ fn.data[5] = -999999
    /\ fn.hvac_data[1] = (-100) * 100
    /\ fn.data[2] + TempDelta(fn.res.val[5], config) + fn.hvac_data[1] < (-273) * 100
    /\ fn.res.val[2] = (-273) * 100

\* C12: both step functions return as timestamp exactly the input timestamp plus
\* one minute, whatever the other fields and the random draws.
C12_TimeAdvancesOneMinute ==
    /\ Returned("simulate_airsealed_room_no_control") => fn.res.val[1] = fn.data[1] + 1
    /\ Returned("simulate_airsealed_room_with_control") => fn.res.val[1] = fn.data[1] + 1

C12_Witness ==
    /\ Returned("simulate_airsealed_room_no_control")
    /\ fn.data[1] = 7 /\ fn.res.val[1] = 8
    /\ fn.d.mod /\ fn.d.noise = NoiseMax

(***************************************************************************)
(* Properties of HVAC.py (SpecPid).                                        *)
(***************************************************************************)
Updated == fn.name = "PID.update"
HvacCalled == fn.name = "use_hvac"

\* C13: the first update of a freshly constructed controller, whatever its
\* gains and setpoint, with measurement = setpoint and any dt returns exactly 0
\* and leaves integral = 0 and previous_error = 0.
C13_ZeroErrorFirstUpdate ==
    (Updated /\ fn.n = 1 /\ fn.measurement = fn.init.setpoint) =>
        /\ fn.exc = "none"
        /\ fn.output = 0
        /\ fn.pid.integral = 0
        /\ fn.pid.previous_error = 0

C13_Witness ==
    /\ Updated /\ fn.n = 1 /\ fn.measurement = fn.init.setpoint
    /\ fn.init.Kd # 0 /\ fn.dt = 2
    /\ fn.output = 0 /\ fn.pid.integral = 0 /\ fn.pid.previous_error = 0

\* C14: with dt = 0 update does not raise: the derivative term is 0, the
\* integral is what it was before the call, the returned value is
\* Kp*error + Ki*integral, and previous_error becomes the current error.
C14_ZeroDt ==
    (Updated /\ fn.dt = 0) =>
        /\ fn.exc = "none"
        /\ fn.pid.integral = fn.before.integral
        /\ fn.output = fn.init.Kp * fn.error + fn.init.Ki * fn.before.integral
        /\ fn.pid.previous_error = fn.error

C14_Witness ==
    /\ Updated /\ fn.dt = 0 /\ fn.n >= 2
    /\ fn.init.Kd # 0 /\ fn.init.Ki # 0
    /\ fn.before.previous_error # fn.error
    /\ fn.before.integral # 0
    /\ fn.output = fn.init.Kp * fn.error + fn.init.Ki * fn.before.integral

\* C15: the integral is never clamped or reset: after any sequence of updates of
\* a fresh controller it is the sum of error_i*dt_i, so after n calls
\* update(m, d) with constant m and d > 0 it is n*(setpoint - m)*d; setpoint 25,
\* m = 20, d = 1, n = 10 gives exactly 50.
C15_IntegralIsSum ==
    (Updated \/ fn.name = "PID.__init__") =>
        /\ fn.pid.integral = fn.sum
        /\ (fn.uniform /\ fn.dt > 0) =>
               fn.pid.integral = fn.n * (fn.init.setpoint - fn.measurement) * fn.dt
        /\ (fn.uniform /\ fn.init.setpoint = 25 * 100 /\ fn.measurement = 20 * 100
                /\ fn.dt = 1 /\ fn.n = 10) => fn.pid.integral = 50 * 100

C15_Witness ==
    /\ Updated /\ fn.uniform /\ fn.n = 10
    /\ fn.init.setpoint = 25 * 100 /\ fn.measurement = 20 * 100 /\ fn.dt = 1
    /\ fn.pid.integral = 50 * 100

\* C16: for dt > 0 update returns Kp*e + Ki*I + Kd*(e - e_prev)/dt, e being
\* setpoint - measurement, I the integral after e*dt was added in this call and
\* e_prev the error of the call before (0 if there was none).
\* PID(2.0, 0.5, 0.1, 22).update(20, 1) returns 5.2; with Kd = 10 alone a second
\* update whose error goes from 5 to 2 returns -30.
C16_OutputFormula ==
    (Updated /\ fn.dt > 0) =>
        LET e == fn.init.setpoint - fn.measurement
            I == fn.before.integral + e * fn.dt
        IN  /\ fn.pid.integral = I
            /\ fn.output = fn.init.Kp * e + fn.init.Ki * I
                               + fn.init.Kd * ((e - fn.error_before) \div fn.dt)
            /\ (fn.init = PID(20, 5, 1, 22 * 100) /\ fn.n = 1
                    /\ fn.measurement = 20 * 100 /\ fn.dt = 1) => fn.output = 5200
            /\ (fn.init = PID(0, 0, 100, 25 * 100) /\ fn.n = 2 /\ fn.dt = 1
                    /\ fn.error_before = 5 * 100 /\ fn.measurement = 23 * 100)
                   => fn.output = -30000

C16_Witness ==
    /\ Updated /\ fn.n = 2 /\ fn.dt = 1
    /\ fn.init = PID(0, 0, 100, 25 * 100)
    /\ fn.error_before = 5 * 100 /\ fn.measurement = 23 * 100
    /\ fn.output = -30000

\* C17: after any non-empty sequence of updates previous_error is the setpoint
\* minus the measurement of the last call, whatever came earlier, and the
\* derivative term of that call was taken from previous_error as it was before
\* the call.
C17_PreviousErrorIsLastError ==
    Updated =>
        /\ fn.pid.previous_error = fn.init.setpoint - fn.measurement
        /\ fn.dt > 0 =>
               fn.output - fn.init.Kp * fn.error - fn.init.Ki * fn.pid.integral
                   = fn.init.Kd * ((fn.error - fn.before.previous_error) \div fn.dt)
        /\ fn.before.previous_error = fn.error_before

C17_Witness ==
    /\ Updated /\ fn.n >= 3 /\ fn.dt = 1 /\ fn.init.Kd # 0
    /\ fn.before.previous_error = 5 * 100
    /\ fn.measurement = fn.init.setpoint - 2 * 100
    /\ fn.pid.previous_error = 2 * 100

\* C18: update changes nothing of its controller but integral and
\* previous_error (Kp, Ki, Kd and setpoint stay as constructed), and in
\* use_hvac each controller is changed by its own measurement only: updating
\* one controller leaves the other two as they were.
SameButState(after, before) ==
    [after EXCEPT !.integral = before.integral,
                  !.previous_error = before.previous_error] = before

OwnUpdate(after, before, measurement) ==
    /\ SameButState(after, before)
    /\ after.previous_error = before.setpoint - measurement
    /\ after.integral = before.integral + (before.setpoint - measurement)

C18_UpdateFrame ==
    /\ Updated =>
           /\ SameButState(fn.pid, fn.before)
           /\ SameButState(fn.pid, fn.init)
    /\ HvacCalled =>
           /\ OwnUpdate(fn.res.pid_temp, fn.pid_temp, fn.data[2])
           /\ OwnUpdate(fn.res.pid_co2, fn.pid_co2, fn.data[3])
           /\ OwnUpdate(fn.res.pid_o2, fn.pid_o2, fn.data[4])

C18_Witness ==
    /\ HvacCalled /\ fn.n = 2
    /\ fn.pid_temp.Kp # 0
    /\ fn.res.pid_temp.integral # fn.pid_temp.integral
    /\ fn.data[3] = CO2Setpoint
    /\ fn.pid_co2.integral # 0
    /\ fn.res.pid_co2.integral = fn.pid_co2.integral
    /\ fn.res.pid_o2.previous_error # fn.pid_o2.previous_error

\* C19: use_hvac returns a five-element list whose elements 0 (time) and 4
\* (thermal) are those of data and whose elements 1..3 are the outputs of
\* pid_temp.update(temp, 1), pid_co2.update(co2, 1) and pid_o2.update(o2, 1)
\* (all 0 when the gains are 0), together with the three controllers, each
\* updated exactly once; the list passed in is not modified.
C19_UseHvacResult ==
    HvacCalled =>
        LET t == PIDUpdate(fn.pid_temp, fn.data[2], 1)
            c == PIDUpdate(fn.pid_co2, fn.data[3], 1)
            o == PIDUpdate(fn.pid_o2, fn.data[4], 1)
            out == fn.res.hvac_data
        IN  /\ Len(out) = 5
            /\ out[1] = fn.data[1] /\ out[5] = fn.data[5]
            /\ out[2] = t.output /\ out[3] = c.output /\ out[4] = o.output
            /\ fn.pid_temp.Kp = 0 /\ fn.pid_temp.Ki = 0 /\ fn.pid_temp.Kd = 0 => out[2] = 0
            /\ fn.pid_co2.Kp = 0 /\ fn.pid_co2.Ki = 0 /\ fn.pid_co2.Kd = 0 => out[3] = 0
            /\ fn.pid_o2.Kp = 0 /\ fn.pid_o2.Ki = 0 /\ fn.pid_o2.Kd = 0 => out[4] = 0
            /\ fn.res.pid_temp = t.pid /\ fn.res.pid_co2 = c.pid /\ fn.res.pid_o2 = o.pid
            /\ fn.res.data = fn.data

C19_Witness ==
    /\ HvacCalled /\ fn.n = 2
    /\ fn.data[1] = 7 /\ fn.res.hvac_data[1] = 7
    /\ fn.res.hvac_data[5] = InitThermal
    /\ fn.res.hvac_data[2] # 0 /\ fn.res.hvac_data[3] # 0 /\ fn.res.hvac_data[4] # 0
    /\ fn.res.hvac_data[3] # fn.res.hvac_data[4]
    /\ fn.res.pid_temp.integral = fn.pid_temp.integral + (TempSetpoint - fn.data[2])

(***************************************************************************)
(* The two step functions of model.py compared (SpecFn).                   *)
(***************************************************************************)
\* C20: with the control output (0, 0, 0) simulate_airsealed_room_with_control
\* returns what simulate_airsealed_room_no_control returns for the same input
\* and the same random draws; for any control output its result is that of the
\* uncontrolled step taken from temperature + hvac_temp (so the adjustment
\* precedes the floor and the breathing step), with hvac_co2 and hvac_o2 added
\* to co2 and o2; time and thermal energy do not depend on the control output.
C20_ControlRefinesNoControl ==
    fn.name = "simulate_airsealed_room_with_control" =>
        LET h == fn.hvac_data
            nc == simulate_airsealed_room_no_control(fn.data, fn.d, config)
            shifted == simulate_airsealed_room_no_control(
                           [fn.data EXCEPT ![2] = @ + h[1]], fn.d, config)
        IN  /\ fn.res.exc = nc.exc
            /\ h = <<0, 0, 0>> => fn.res = nc
            /\ fn.res.exc = "none" =>
                   /\ fn.res.val[1] = nc.val[1] /\ fn.res.val[5] = nc.val[5]
                   /\ fn.res.val = <<shifted.val[1], shifted.val[2], shifted.val[3] + h[2],
                                     shifted.val[4] + h[3], shifted.val[5]>>

C20_Witness ==
    /\ Returned("simulate_airsealed_room_with_control")
    /\ fn.hvac_data = <<0, 0, 0>>
    /\ fn.d.mod /\ fn.d.jc # 0
    /\ fn.res = simulate_airsealed_room_no_control(fn.data, fn.d, config)
    /\ fn.res.val # fn.data

(***************************************************************************)
(* Further properties of model.py (SpecFn).                                *)
(***************************************************************************)
IsStep ==
    \/ Returned("simulate_airsealed_room_no_control")
    \/ Returned("simulate_airsealed_room_with_control")

\* C21: simulate_process_equipment(thermal) returns thermal plus the noise drawn
\* from -5000..5000, which is added on every call, plus the shock drawn from
\* -50000..50000 when the 1% case occurs: the change is within 5000 without and
\* within 55000 with a shock.  The thermal value a step returns is that noisy
\* value, and it is the one the step's temperature update used.
C21_ProcessEquipmentRange ==
    /\ Returned("simulate_process_equipment") =>
           LET change == fn.res.val - fn.thermal
           IN  /\ ~fn.mod => change = fn.noise /\ Abs(change) <= 5000
               /\ fn.mod => change = fn.shock + fn.noise /\ Abs(change) <= 55000
    /\ IsStep =>
           LET change == fn.res.val[5] - fn.data[5]
           IN  /\ ~fn.d.mod => change = fn.d.noise /\ Abs(change) <= 5000
               /\ fn.d.mod => change = fn.d.shock + fn.d.noise /\ Abs(change) <= 55000
    /\ Returned("simulate_airsealed_room_no_control") =>
           fn.res.val[2] = Max(fn.data[2] + TempDelta(fn.res.val[5], config), MinTemp)
    /\ Returned("simulate_airsealed_room_with_control") =>
           fn.res.val[2] = Max(fn.data[2] + TempDelta(fn.res.val[5], config)
                                   + fn.hvac_data[1], MinTemp)

C21_Witness ==
    /\ Returned("simulate_process_equipment")
    /\ fn.mod /\ fn.noise = 5000
    /\ fn.res.val - fn.thermal = 55000

\* C26: in both step functions simulate_breathing_changes is called with the
\* temperature already updated from the new thermal value and floored at -273,
\* never with the temperature of the input state; the time is advanced and the
\* thermal value drawn before.
C26_BreathingSeesNewTemperature ==
    IsStep =>
        LET thermal == simulate_process_equipment(fn.data[5], fn.d.mod, fn.d.shock, fn.d.noise)
            hvac_temp == IF fn.name = "simulate_airsealed_room_with_control"
                         THEN fn.hvac_data[1] ELSE 0
            hvac_co2 == IF fn.name = "simulate_airsealed_room_with_control"
                        THEN fn.hvac_data[2] ELSE 0
            hvac_o2 == IF fn.name = "simulate_airsealed_room_with_control"
                       THEN fn.hvac_data[3] ELSE 0
            temp == Max(fn.data[2] + TempDelta(thermal, config) + hvac_temp, MinTemp)
            b == simulate_breathing_changes(fn.data[3], fn.data[4], temp,
                                            fn.d.jc, fn.d.jo, config).val
        IN  /\ fn.res.val[1] = fn.data[1] + 1
            /\ fn.res.val[5] = thermal
            /\ fn.res.val[2] = temp
            /\ fn.res.val[3] = b[1] + hvac_co2
            /\ fn.res.val[4] = b[2] + hvac_o2

\* a step in which the breathing result on the input temperature would differ
C26_Witness ==
    /\ Returned("simulate_airsealed_room_no_control")
    /\ fn.res.val[2] = MinTemp /\ fn.data[2] # MinTemp
    /\ simulate_breathing_changes(fn.data[3], fn.data[4], fn.data[2],
                                  fn.d.jc, fn.d.jo, config).val # <<fn.res.val[3], fn.res.val[4]>>

\* C27: for 0 <= co2, o2 <= 1000000 and occupants >= 0, whatever the temperature
\* and the jitter draws, simulate_breathing_changes returns co2' >= co2 and
\* o2' <= o2; the result is the same for temperature and -temperature, and at
\* temperature 0 co2 and o2 are returned unchanged.
C27_BreathingMonotone ==
    (Returned("simulate_breathing_changes") /\ InRange(fn.co2) /\ InRange(fn.o2)) =>
        /\ fn.res.val[1] >= fn.co2
        /\ fn.res.val[2] <= fn.o2
        /\ fn.res = simulate_breathing_changes(fn.co2, fn.o2, -fn.temp, fn.jc, fn.jo, config)
        /\ fn.temp = 0 => fn.res.val = <<fn.co2, fn.o2>>

C27_Witness ==
    /\ Returned("simulate_breathing_changes")
    /\ fn.temp < 0 /\ config.occupants > 0
    /\ fn.jc < 0 /\ fn.jo < 0
    /\ fn.co2 = 400 * 1000 /\ fn.res.val[1] > fn.co2
    /\ fn.o2 = 400 * 1000 /\ fn.res.val[2] < fn.o2

\* C28: the first result of use_hvac can be passed unchanged as hvac_data to
\* simulate_airsealed_room_with_control, together with the state it was computed
\* from, without raising: it has the shape of the three adjustments.
C28_HvacResultFitsControl ==
    HvacCalled =>
        LET d == [mod |-> FALSE, shock |-> 0, noise |-> 0, jc |-> 0, jo |-> 0]
        IN  /\ Len(fn.res.hvac_data) = 3
            /\ simulate_airsealed_room_with_control(fn.data, fn.res.hvac_data, d, config).exc
                   = "none"

\* C29: a call of process_for_dataframe or process_for_sql with hours_run >= 1
\* made after an earlier call in the same process (the accumulator lists may be
\* non-empty) does not raise, and its first tick steps the configured initial
\* state.
C29_LaterRunStartsFromInitialState ==
    (trace.fn \in {"process_for_dataframe", "process_for_sql"} /\ ~trace.fresh
         /\ config.hours_run >= 1) =>
        /\ NoException
        /\ Len(trace.writes) = 1 => trace.last_arg = InitialState(config)

\* C30: simulate_breathing_changes does not raise for any room_volume > 0, large
\* rooms with 100 * rate < 1 included.
C30_BreathingNeverRaises ==
    fn.name = "simulate_breathing_changes" => fn.res.exc = "none"

(***************************************************************************)
(* Properties of services/database.py (SpecDb).                            *)
(***************************************************************************)
DbCalled(call) == fn.name = "database" /\ fn.call = call

C25_DeleteDbCloses ==
    /\ (DbCalled("delete_db") /\ fn.exc = "none") => ~fn.db.open /\ ~fn.db.exists
    /\ (fn.name = "database" /\ fn.deleted) =>
           /\ ~fn.db.open /\ ~fn.db.exists
           /\ fn.call # "delete_db" => fn.exc = "ProgrammingError"

C25_Witness ==
    /\ DbCalled("plot_data_from_db") /\ fn.deleted
    /\ fn.exc = "ProgrammingError"
    /\ fn.n = 5

(***************************************************************************)
(* Properties of read_json.py and data_processor.py (SpecJson).            *)
(***************************************************************************)
\* C23: get_sorted_json_filepaths returns every directory entry exactly once,
\* ordered by the integer value of the first run of digits in its name (1, 2,
\* 10, 20, not alphabetically); a name without a digit makes it raise
\* AttributeError, an empty directory gives the empty list.  The files 1.json ..
\* N.json of a run are therefore read back, and inserted by initialise_db, in
\* tick order.
C23_SortedByNumber ==
    /\ fn.name = "get_sorted_json_filepaths" =>
           LET l == fn.listing
               r == fn.res.val
           IN  /\ (\E k \in 1..Len(l) : ~HasDigit(l[k])) => fn.res.exc = "AttributeError"
               /\ (\A k \in 1..Len(l) : HasDigit(l[k])) =>
                      /\ fn.res.exc = "none"
                      /\ Len(r) = Len(l)
                      /\ \A k \in 1..Len(l) : \E i \in 1..Len(r) : r[i] = l[k]
                      /\ \A i, j \in 1..Len(r) : r[i] = r[j] => i = j
                      /\ \A i, j \in 1..Len(r) :
                             i < j => ParseInt(FirstDigitRun(r[i])) <= ParseInt(FirstDigitRun(r[j]))
               /\ l = <<>> => fn.res = Return(<<>>)
    /\ fn.name = "initialise_db" =>
           /\ fn.res.exc = "none"
           /\ Len(fn.res.db.rows) = fn.n
           /\ \A k \in 1..fn.n :
                  /\ ParseInt(FirstDigitRun(FileName(k))) = k
                  /\ fn.res.db.rows[k] = <<k>> \o extract_row_from_json(fn.dir[k])
                  /\ fn.res.db.rows[k][2] = Isoformat(start_time + k)

C23_Witness ==
    /\ fn.name = "get_sorted_json_filepaths"
    /\ fn.listing = <<FileName(10), FileName(2), FileName(20), FileName(1)>>
    /\ fn.res = Return(<<FileName(1), FileName(2), FileName(10), FileName(20)>>)

(***************************************************************************)
(* Properties of main.py (SpecMain).                                       *)
(***************************************************************************)
Cleanup == <<"plot_data_from_db", "delete_data", "delete_pycache_dirs", "delete_db">>

CleanupDone ==
    /\ fn.name = "main"
    /\ Len(fn.log) >= 4
    /\ SubSeq(fn.log, Len(fn.log) - 3, Len(fn.log)) = Cleanup

\* C22: in every execution of main.py, whether database_type is "dataframe" or
\* "sql" and whatever hours_run, delete_data, delete_pycache_dirs and delete_db
\* are eventually called, in that order and after plot_data_from_db, also when
\* the simulation or the plotting step fails.
C22_CleanupAlwaysRuns == <>CleanupDone

====
